---------------------------- MODULE Spec2Model ----------------------------
(***************************************************************************)
(* Model of the Tensoria gateway (src/api): the API-key gate, the Ollama   *)
(* connector (OllamaClient) and the chat / completion handlers with their  *)
(* server-sent-event generators.  One request is followed from the handler *)
(* entry to the end of its response; the backend is opaque and answers     *)
(* each HTTP call with a nondeterministically chosen outcome.              *)
(***************************************************************************)
EXTENDS Naturals, Sequences, FiniteSets

VARIABLES
    req,          \* the request: [endpoint, stream, model]
    pc,           \* position of the handler / generator
    models,       \* local `models` of chat() / generate(): list_models() result
    prechecked,   \* TRUE once the existence check of chat()/generate() passed
    calls,        \* backend HTTP calls issued for this request, in order
    response,     \* the unary HTTP response
    events,       \* the server-sent events yielded so far
    escaped,      \* kind of the exception that left the handler uncaught
    clientClosed, \* the httpx.AsyncClient handed to _stream_request is closed
    received,     \* the chunks _stream_request has yielded so far
    answers,      \* the backend's answers to the calls issued, in order,
                  \* then how the line iteration of a streamed reply ended
    apiKeyCfg,    \* settings.api_key
    header,       \* the X-API-Key header of the request
    authResult,   \* what verify_api_key did
    result,       \* unary: the backend's reply to POST /api/chat | /api/generate
    usage,        \* unary: the ChatCompletionUsage of the response
    params,       \* payload construction: the request's fields
    payload,      \* payload construction: the dict chat() / generate() sends
    op,           \* model management and health: the route called
    timeoutCfg,   \* OllamaClient.timeout (seconds)
    waits,        \* seconds the backend took for each call, in order
    clientRet,    \* what the last OllamaClient method returned or raised
    respBody,     \* body of the /health or /v1/models response
    cancelledAt   \* streaming: where the generator stood when the client left

vars == <<req, pc, models, prechecked, calls, response, events, escaped,
          clientClosed, received, answers, apiKeyCfg, header, authResult,
          result, usage, params, payload, op, timeoutCfg, waits, clientRet, respBody,
          cancelledAt>>

reqVars == <<req, pc, models, prechecked, calls, response, events, escaped,
             clientClosed, received, answers>>

authVars == <<apiKeyCfg, header, authResult>>

unaryVars == <<result, usage>>

payloadVars == <<params, payload>>

adminVars == <<op, timeoutCfg, waits, clientRet, respBody>>

cancelVars == <<cancelledAt>>

\* What the chat / completion handlers never touch.
idleVars == <<authVars, payloadVars, adminVars, cancelVars>>

(***************************************************************************)
(* Bounds of the model.                                                    *)
(***************************************************************************)
MaxModels == 1   \* longest installed-model list the backend returns
MaxChunks == 2   \* most lines one backend stream delivers
MaxKeyLen == 2   \* longest API key / header value
MaxCount == 2    \* largest token count the backend reports
MaxMsgs == 2     \* longest request.messages
MaxTokens == 2   \* largest max_tokens of a request

(***************************************************************************)
(* Strings whose characters matter are sequences of one-character strings  *)
(* (model identifiers) or of code points (API keys).                       *)
(***************************************************************************)
ModelIds ==
    { <<"m">>, <<"q">>, <<"m", ":", "t">>, <<"m", ":", "u">>, <<":", "t">> }

\* An entry of the backend's model list: a dict whose "name" may be absent.
Descriptors ==
    { [hasName |-> TRUE, name |-> n] : n \in { <<"m">>, <<"m", ":", "t">>, <<"q", ":", "t">> } }
    \cup { [hasName |-> FALSE, name |-> <<>>] }

SeqsUpTo(S, n) == UNION { [1..k -> S] : k \in 0..n }

ModelLists == SeqsUpTo(Descriptors, MaxModels)

\* str.split(":")[0]: the part before the first ":" (all of it without one).
Split0(s) ==
    LET idx == { i \in 1..Len(s) : s[i] = ":" }
    IN  IF idx = {} THEN s
        ELSE SubSeq(s, 1, (CHOOSE i \in idx : \A j \in idx : i <= j) - 1)

\* [m.get("name", "").split(":")[0] for m in models]
model_names(ms) ==
    { Split0(IF ms[i].hasName THEN ms[i].name ELSE <<>>) : i \in 1..Len(ms) }

\* [m.get("name") for m in models], as far as a str can be `in` it
full_names(ms) ==
    { ms[i].name : i \in { j \in 1..Len(ms) : ms[j].hasName } }

\* Mutant of PrecheckPasses: the two membership tests joined by `or`, so that
\* the request is refused unless both match.
PrecheckPasses_either(model, ms) ==
    ~ (Split0(model) \notin model_names(ms) \/ model \notin full_names(ms))

\* Mutant of PrecheckPasses: the test is skipped when the list is empty
\* (`if models and ...`).
PrecheckPasses_or_empty(model, ms) ==
    \/ ms = <<>>
    \/ ~ (Split0(model) \notin model_names(ms) /\ model \notin full_names(ms))

\* chat()/generate(): the negation of the `raise ModelNotFoundError` test
PrecheckPasses(model, ms) ==
    ~ (Split0(model) \notin model_names(ms) /\ model \notin full_names(ms))

(***************************************************************************)
(* Exceptions.  OllamaError is the base of the connector's own errors.     *)
(***************************************************************************)
NoExc == [kind |-> "none", model |-> <<>>]

Exc(k) == [kind |-> k, model |-> <<>>]

\* ModelNotFoundError(model): keeps the identifier it was raised with
ModelNotFoundError(model) == [kind |-> "ModelNotFoundError", model |-> model]

IsModelNotFoundError(e) == e.kind = "ModelNotFoundError"

IsOllamaError(e) ==
    e.kind \in {"OllamaError", "ModelNotFoundError", "OllamaConnectionError"}

\* _request's json_data.get("model", "unknown") if json_data else "unknown"
Unknown == <<"unknown">>


(***************************************************************************)
(* The backend's answers.  A unary call is answered by a status, fails at  *)
(* connection level, times out, breaks while the body is read, or carries  *)
(* a body that is not JSON.                                                *)
(***************************************************************************)
Outcomes == {"200", "404", "500", "connect", "timeout", "readerror", "badjson"}

\* Body of GET /api/tags: a dict whose "models" key may be absent.
TagsBodies ==
    { [hasModels |-> TRUE, models |-> l] : l \in ModelLists }
    \cup { [hasModels |-> FALSE, models |-> <<>>] }

\* No body was read: the call did not answer 200.
NoBody == [hasModels |-> FALSE, models |-> <<>>]

\* A line of a streamed reply: a chunk dict; "done" and the content
\* ("message.content" of /api/chat, "response" of /api/generate) may be absent.
Chunks ==
    { [hasContent |-> TRUE, content |-> c, hasDone |-> hd, done |-> d] :
        c \in {"a", "b"}, hd \in {TRUE}, d \in BOOLEAN }
    \cup { [hasContent |-> TRUE, content |-> c, hasDone |-> FALSE, done |-> FALSE] :
        c \in {"a", "b"} }
    \cup { [hasContent |-> FALSE, content |-> "", hasDone |-> TRUE, done |-> d] :
        d \in BOOLEAN }
    \cup { [hasContent |-> FALSE, content |-> "", hasDone |-> FALSE, done |-> FALSE] }

\* No chunk was read: the line is empty, or the iteration ended or failed.
NoChunk == [hasContent |-> FALSE, content |-> "", hasDone |-> FALSE, done |-> FALSE]

\* How the backend answers the opening of a streamed call.
OpenOutcomes == {"200", "404", "500", "connect", "timeout"}

\* What the line iteration of a streamed reply can do next.
LineOutcomes == {"line", "empty", "eof", "readerror", "timeout", "badjson"}

(***************************************************************************)
(* OllamaClient                                                            *)
(***************************************************************************)
\* _request(stream=False): the exception a backend outcome ends in (NoExc:
\* the parsed body is returned).  jsonModel is json_data.get("model",
\* "unknown"), Unknown when there is no json_data.
_request(outcome, jsonModel) ==
    CASE outcome = "200"       -> NoExc
      [] outcome = "404"       -> ModelNotFoundError(jsonModel)
      [] outcome = "500"       -> Exc("OllamaError")
      [] outcome = "connect"   -> Exc("OllamaConnectionError")
      [] outcome = "timeout"   -> Exc("OllamaError")
      [] outcome = "readerror" -> Exc("httpx.ReadError")
      [] outcome = "badjson"   -> Exc("json.JSONDecodeError")

\* _stream_request, opening: client.stream(...) and raise_for_status(),
\* outside every try of _request, which has returned.
_stream_request_open(outcome) ==
    CASE outcome = "200"       -> NoExc
      [] outcome = "404"       -> Exc("httpx.HTTPStatusError")
      [] outcome = "500"       -> Exc("httpx.HTTPStatusError")
      [] outcome = "connect"   -> Exc("httpx.ConnectError")
      [] outcome = "timeout"   -> Exc("httpx.TimeoutException")

\* Mutant of _stream_request_line: the failures of the line iteration are
\* translated to OllamaError, the way _request translates those of a call.
_stream_request_line_wrapped(outcome) ==
    CASE outcome = "line"      -> NoExc
      [] outcome = "empty"     -> NoExc
      [] outcome = "eof"       -> NoExc
      [] outcome = "readerror" -> Exc("OllamaError")
      [] outcome = "timeout"   -> Exc("OllamaError")
      [] outcome = "badjson"   -> Exc("OllamaError")

\* _stream_request, iterating aiter_lines() and json.loads(line)
_stream_request_line(outcome) ==
    CASE outcome = "line"      -> NoExc
      [] outcome = "empty"     -> NoExc
      [] outcome = "eof"       -> NoExc
      [] outcome = "readerror" -> Exc("httpx.ReadError")
      [] outcome = "timeout"   -> Exc("httpx.TimeoutException")
      [] outcome = "badjson"   -> Exc("json.JSONDecodeError")

\* Mutant of list_models: without the `except OllamaConnectionError`.
list_models_uncaught(outcome, body) ==
    LET e == _request(outcome, Unknown)
    IN  IF e = NoExc
          THEN [raised |-> NoExc,
                value  |-> IF body.hasModels THEN body.models ELSE <<>>]
        ELSE [raised |-> e, value |-> <<>>]

\* list_models(): [raised, value]
list_models(outcome, body) ==
    LET e == _request(outcome, Unknown)
    IN  IF e = NoExc
          THEN [raised |-> NoExc,
                value  |-> IF body.hasModels THEN body.models ELSE <<>>]
        ELSE IF e.kind = "OllamaConnectionError"
          THEN [raised |-> NoExc, value |-> <<>>]
        ELSE [raised |-> e, value |-> <<>>]

\* Mutant of precheck: the missing model is logged and the call goes on.
precheck_logged(model, ms) == NoExc

\* Mutant of precheck: the error is raised with the tag-stripped identifier.
precheck_base(model, ms) ==
    IF PrecheckPasses(model, ms) THEN NoExc ELSE ModelNotFoundError(Split0(model))

\* chat()/generate(), the existence check: the exception it raises, if any
precheck(model, ms) ==
    IF PrecheckPasses(model, ms) THEN NoExc ELSE ModelNotFoundError(model)

(***************************************************************************)
(* Handlers                                                                *)
(***************************************************************************)
NoResponse == [status |-> 0, type |-> "none", code |-> "none", model |-> <<>>]

\* chat_completions / completions: the ChatCompletionResponse / CompletionResponse
OkResponse(r) ==
    [status |-> 200, type |-> "ok", code |-> "none", model |-> r.model]

\* The reply to a unary POST /api/chat | /api/generate, as far as the usage
\* reads it: "prompt_eval_count" and "eval_count", each possibly absent.
Replies ==
    [hasPrompt : {TRUE}, prompt : 0..MaxCount, hasEval : {TRUE}, eval : 0..MaxCount]
    \cup [hasPrompt : {FALSE}, prompt : {0}, hasEval : {TRUE}, eval : 0..MaxCount]
    \cup [hasPrompt : {TRUE}, prompt : 0..MaxCount, hasEval : {FALSE}, eval : {0}]
    \cup [hasPrompt : {FALSE}, prompt : {0}, hasEval : {FALSE}, eval : {0}]

NoReply == [hasPrompt |-> FALSE, prompt |-> 0, hasEval |-> FALSE, eval |-> 0]

NoUsage == [prompt_tokens |-> 0, completion_tokens |-> 0, total_tokens |-> 0]

\* Mutant of ChatCompletionUsage: the total counts the completion only.
ChatCompletionUsage_completion_only(r) ==
    [prompt_tokens     |-> IF r.hasPrompt THEN r.prompt ELSE 0,
     completion_tokens |-> IF r.hasEval THEN r.eval ELSE 0,
     total_tokens      |-> IF r.hasEval THEN r.eval ELSE 0]

\* chat_completions / completions: usage=ChatCompletionUsage(...), each
\* field from result.get(<count>, 0)
ChatCompletionUsage(r) ==
    [prompt_tokens     |-> IF r.hasPrompt THEN r.prompt ELSE 0,
     completion_tokens |-> IF r.hasEval THEN r.eval ELSE 0,
     total_tokens      |-> (IF r.hasPrompt THEN r.prompt ELSE 0)
                           + (IF r.hasEval THEN r.eval ELSE 0)]

\* chat_completions / completions: the except clauses, in their order
http_error(e) ==
    IF IsModelNotFoundError(e)
      THEN [status |-> 404, type |-> "model_not_found",
            code |-> "model_not_found", model |-> e.model]
    ELSE IF IsOllamaError(e)
      THEN [status |-> 500, type |-> "server_error",
            code |-> "ollama_error", model |-> <<>>]
    ELSE NoResponse

\* stream_chat_response / stream_completion_response: the events
NoField == <<>>

\* Mutant of DataEvent: the content is read one level too high in the chunk
\* (chunk.get("content", "")), where it never is.
DataEvent_wrong_key(endpoint, chunk) ==
    LET content == ""
        done    == IF chunk.hasDone THEN chunk.done ELSE FALSE
    IN  [kind   |-> "data",
         object |-> IF endpoint = "chat" THEN "chat.completion.chunk"
                    ELSE "text_completion",
         delta  |-> IF endpoint = "chat" /\ content # "" THEN <<content>>
                    ELSE NoField,
         text   |-> IF endpoint = "chat" THEN NoField ELSE <<content>>,
         finish |-> IF done THEN "stop" ELSE "null",
         etype  |-> "none",
         model  |-> <<>>]

DataEvent(endpoint, chunk) ==
    LET content == IF chunk.hasContent THEN chunk.content ELSE ""
        done    == IF chunk.hasDone THEN chunk.done ELSE FALSE
    IN  [kind   |-> "data",
         object |-> IF endpoint = "chat" THEN "chat.completion.chunk"
                    ELSE "text_completion",
         \* chat: "delta": {"content": content} if content else {}
         delta  |-> IF endpoint = "chat" /\ content # "" THEN <<content>>
                    ELSE NoField,
         \* completions: "text": content
         text   |-> IF endpoint = "chat" THEN NoField ELSE <<content>>,
         finish |-> IF done THEN "stop" ELSE "null",
         etype  |-> "none",
         model  |-> <<>>]

DoneEvent ==
    [kind |-> "done", object |-> "none", delta |-> NoField, text |-> NoField,
     finish |-> "none", etype |-> "none", model |-> <<>>]

\* Mutant of error_event: `except OllamaError` placed first, so that it
\* also takes the ModelNotFoundError.
error_event_swapped(e) ==
    [kind |-> "error", object |-> "none", delta |-> NoField, text |-> NoField,
     finish |-> "none",
     etype |-> IF IsOllamaError(e) THEN "server_error" ELSE "model_not_found",
     model |-> e.model]

\* the except clauses of the generators, in their order
error_event(e) ==
    [kind |-> "error", object |-> "none", delta |-> NoField, text |-> NoField,
     finish |-> "none",
     etype |-> IF IsModelNotFoundError(e) THEN "model_not_found"
               ELSE "server_error",
     model |-> e.model]

ChunkDone(chunk) == IF chunk.hasDone THEN chunk.done ELSE FALSE

PostPath == IF req.endpoint = "chat" THEN "/api/chat" ELSE "/api/generate"

\* Mutant of Raise: a last `except Exception` clause reports every other
\* exception the way an OllamaError is reported.
Raise_catch_all(e) ==
    /\ pc' = "end"
    /\ escaped' = escaped
    /\ IF req.stream
         THEN events' = Append(events, error_event(e)) /\ response' = response
         ELSE /\ response' = IF IsModelNotFoundError(e) THEN http_error(e)
                             ELSE http_error(Exc("OllamaError"))
              /\ events' = events

\* An exception raised inside the try of the handler or generator: caught
\* and reported when it is an OllamaError, otherwise it leaves uncaught.
Raise(e) ==
    /\ pc' = "end"
    /\ IF IsOllamaError(e)
         THEN /\ escaped' = escaped
              /\ IF req.stream
                   THEN events' = Append(events, error_event(e)) /\ response' = response
                   ELSE response' = http_error(e) /\ events' = events
         ELSE /\ escaped' = e
              /\ UNCHANGED <<events, response>>


(***************************************************************************)
(* A chat or completion request, from the handler's entry.                 *)
(***************************************************************************)
Requests ==
    [endpoint : {"chat", "completions"}, stream : BOOLEAN, model : ModelIds]

Call(method, path) == [method |-> method, path |-> path]

\* health_check: httpx.AsyncClient(timeout=5)
HealthTimeout == 5

\* pull_model: httpx.AsyncClient(timeout=1200.0)
PullTimeout == 1200

\* Settings.ollama_timeout: int = 120
DefaultTimeout == 120

InitUnaryIdle ==
    /\ result = NoReply
    /\ usage = NoUsage

InitPayloadIdle ==
    /\ params = <<>>
    /\ payload = <<>>

InitAdminIdle ==
    /\ op = "none"
    /\ timeoutCfg = DefaultTimeout
    /\ waits = <<>>
    /\ clientRet = <<>>
    /\ respBody = <<>>

InitCancelIdle == cancelledAt = "none"

InitAuthIdle ==
    /\ apiKeyCfg = <<>>
    /\ header = [present |-> FALSE, value |-> <<>>]
    /\ authResult = [status |-> 200, code |-> "none", ret |-> <<"no-key-configured">>]

Init ==
    /\ req \in Requests
    /\ pc = "handler"
    /\ models = <<>>
    /\ prechecked = "pending"
    /\ calls = <<>>
    /\ answers = <<>>
    /\ response = NoResponse
    /\ events = <<>>
    /\ escaped = NoExc
    /\ clientClosed = FALSE
    /\ received = <<>>
    /\ InitAuthIdle
    /\ InitUnaryIdle
    /\ InitPayloadIdle
    /\ InitAdminIdle
    /\ InitCancelIdle

\* chat_completions / completions (or, streaming, the first pull of the
\* generator) up to the first await: chat()/generate() calls list_models(),
\* which issues GET /api/tags.
HandlerEntry ==
    /\ pc = "handler"
    /\ calls' = Append(calls, Call("GET", "/api/tags"))
    /\ pc' = "list"
    /\ UNCHANGED <<req, models, prechecked, answers, response, events, escaped,
                   clientClosed, received, unaryVars, idleVars>>

\* GET /api/tags is answered: list_models() returns or raises, the existence
\* check runs, and the chat/generate call is set up.  Unary: POST is issued
\* and awaited.  Streaming: _request(stream=True) hands back the generator
\* object of _stream_request and leaves its `async with`, closing the client;
\* nothing has been sent yet.
ListReturns(outcome, body) ==
    /\ pc = "list"
    /\ answers' = Append(answers, outcome)
    /\ LET r == list_models(outcome, body)
           e == IF r.raised # NoExc THEN r.raised ELSE precheck(req.model, r.value)
       IN  /\ models' = r.value
           /\ prechecked' = IF r.raised # NoExc THEN "pending"
                            ELSE IF e = NoExc THEN "passed" ELSE "failed"
           /\ IF e # NoExc
                THEN /\ Raise(e)
                     /\ UNCHANGED <<calls, clientClosed>>
              ELSE IF req.stream
                THEN /\ pc' = "open"
                     /\ clientClosed' = TRUE
                     /\ UNCHANGED <<calls, response, events, escaped>>
              ELSE /\ pc' = "post"
                   /\ calls' = Append(calls, Call("POST", PostPath))
                   /\ UNCHANGED <<clientClosed, response, events, escaped>>
    /\ UNCHANGED <<req, received, unaryVars, idleVars>>

\* Unary: POST /api/chat or /api/generate is answered.
PostReturns(outcome, reply) ==
    /\ pc = "post"
    /\ answers' = Append(answers, outcome)
    /\ LET e == _request(outcome, req.model)
       IN  IF e # NoExc
             THEN Raise(e) /\ UNCHANGED unaryVars
           ELSE /\ pc' = "end"
                /\ result' = reply
                /\ response' = OkResponse(req)
                /\ usage' = ChatCompletionUsage(reply)
                /\ UNCHANGED <<events, escaped>>
    /\ UNCHANGED <<req, models, prechecked, calls, clientClosed, received, idleVars>>

\* Streaming, first pull of `async for chunk in ...`: _stream_request starts
\* and calls client.stream() on the client _request has already closed.
\* Recent httpx releases refuse with RuntimeError; releases without that
\* check send the request over a re-opened pool.  src/ pins no release, so
\* both are outcomes of some build.
StreamOpenRefused ==
    /\ pc = "open"
    /\ clientClosed
    /\ pc' = "end"
    /\ escaped' = Exc("RuntimeError")
    /\ UNCHANGED <<req, models, prechecked, calls, answers, response, events,
                   clientClosed, received, unaryVars, idleVars>>

StreamOpen(outcome) ==
    /\ pc = "open"
    /\ calls' = Append(calls, Call("POST", PostPath))
    /\ answers' = Append(answers, outcome)
    /\ LET e == _stream_request_open(outcome)
       IN  IF e # NoExc
             THEN Raise(e)
           ELSE /\ pc' = "lines"
                /\ UNCHANGED <<response, events, escaped>>
    /\ UNCHANGED <<req, models, prechecked, clientClosed, received, unaryVars, idleVars>>

\* Streaming: the generator is pulled and _stream_request reads on.  A
\* non-empty line is parsed and yielded, and the loop body yields its data
\* event; an empty line is skipped; at the end of the body the loop, and
\* with it the generator, ends.
StreamLine(outcome, chunk) ==
    /\ pc = "lines"
    /\ LET e == _stream_request_line(outcome)
       IN  IF e # NoExc
             THEN /\ Raise(e)
                  /\ answers' = Append(answers, outcome)
                  /\ UNCHANGED received
           ELSE IF outcome = "eof"
             THEN /\ pc' = "end"
                  /\ answers' = Append(answers, outcome)
                  /\ UNCHANGED <<response, events, escaped, received>>
           ELSE IF outcome = "empty"
             THEN UNCHANGED <<pc, response, events, escaped, received, answers>>
           ELSE /\ Len(received) < MaxChunks
                /\ received' = Append(received, chunk)
                /\ events' = Append(events, DataEvent(req.endpoint, chunk))
                /\ pc' = IF ChunkDone(chunk) THEN "sentinel" ELSE "lines"
                /\ UNCHANGED <<response, escaped, answers>>
    /\ UNCHANGED <<req, models, prechecked, calls, clientClosed, unaryVars, idleVars>>

\* Streaming: the pull after the data event of a done chunk: `if done:
\* yield "data: [DONE]\n\n"`; the loop then goes on to the next chunk.
StreamSentinel ==
    /\ pc = "sentinel"
    /\ events' = Append(events, DoneEvent)
    /\ pc' = "lines"
    /\ UNCHANGED <<req, models, prechecked, calls, answers, response, escaped,
                   clientClosed, received, unaryVars, idleVars>>

Next ==
    \/ HandlerEntry
    \/ \E o \in Outcomes :
          \E b \in IF o = "200" THEN TagsBodies ELSE {NoBody} : ListReturns(o, b)
    \/ \E o \in Outcomes :
          \E r \in IF o = "200" THEN Replies ELSE {NoReply} : PostReturns(o, r)
    \/ StreamOpenRefused
    \/ \E o \in OpenOutcomes : StreamOpen(o)
    \/ \E o \in LineOutcomes :
          \E c \in IF o = "line" THEN Chunks ELSE {NoChunk} : StreamLine(o, c)
    \/ StreamSentinel

Spec == Init /\ [][Next]_vars


(***************************************************************************)
(* The API-key gate (auth.py), on its own: SpecAuth draws the configured   *)
(* secret and the request's header and applies verify_api_key.             *)
(***************************************************************************)
\* Code points: "k", "x" and a non-ASCII one (latin-1 0xE9).
KeyChars == {107, 120, 233}

Keys == SeqsUpTo(KeyChars, MaxKeyLen)

NoHeader == [present |-> FALSE, value |-> <<>>]

Headers == { [present |-> TRUE, value |-> v] : v \in Keys } \cup {NoHeader}

\* APIKeyHeader(name="X-API-Key", auto_error=False): the header's value, or
\* None without a (non-empty) one.
api_key_header(h) == IF h.present /\ h.value # <<>> THEN h ELSE NoHeader

IsAscii(str) == \A i \in 1..Len(str) : str[i] < 128

AuthPending == [status |-> 0, code |-> "pending", ret |-> <<>>]

\* verify_api_key: the value returned (status 200), the HTTPException
\* raised (status 401), or the TypeError secrets.compare_digest raises for
\* a str with a non-ASCII character, which nothing catches (status 500).
verify_api_key(cfg, h) ==
    LET api_key == api_key_header(h)
    IN  IF cfg = <<>>
          THEN [status |-> 200, code |-> "none", ret |-> <<"no-key-configured">>]
        ELSE IF ~ api_key.present \/ api_key.value = <<>>
          THEN [status |-> 401, code |-> "missing_api_key", ret |-> <<>>]
        ELSE IF ~ (IsAscii(api_key.value) /\ IsAscii(cfg))
          THEN [status |-> 500, code |-> "TypeError", ret |-> <<>>]
        ELSE IF api_key.value # cfg
          THEN [status |-> 401, code |-> "invalid_api_key", ret |-> <<>>]
        ELSE [status |-> 200, code |-> "none", ret |-> api_key.value]

InitAuth ==
    /\ apiKeyCfg \in Keys
    /\ header \in Headers
    /\ authResult = AuthPending
    /\ req = [endpoint |-> "chat", stream |-> FALSE, model |-> <<"m">>]
    /\ pc = "auth"
    /\ models = <<>>
    /\ prechecked = "pending"
    /\ calls = <<>>
    /\ answers = <<>>
    /\ response = NoResponse
    /\ events = <<>>
    /\ escaped = NoExc
    /\ clientClosed = FALSE
    /\ received = <<>>
    /\ InitUnaryIdle
    /\ InitPayloadIdle
    /\ InitAdminIdle
    /\ InitCancelIdle

\* Depends(verify_api_key) runs before the handler; the handler is entered
\* only when it returns.
VerifyApiKey ==
    /\ pc = "auth"
    /\ authResult' = verify_api_key(apiKeyCfg, header)
    /\ pc' = IF authResult'.status = 200 THEN "handler" ELSE "end"
    /\ UNCHANGED <<req, models, prechecked, calls, answers, response, events,
                   escaped, clientClosed, received, apiKeyCfg, header,
                   unaryVars, payloadVars, adminVars, cancelVars>>

NextAuth == VerifyApiKey

SpecAuth == InitAuth /\ [][NextAuth]_vars


(***************************************************************************)
(* Properties                                                              *)
(***************************************************************************)
Indices(kind) == { i \in 1..Len(events) : events[i].kind = kind }

LastKind == IF events = <<>> THEN "none" ELSE events[Len(events)].kind

StreamEnded == req.stream /\ pc = "end"

UnaryEnded == ~ req.stream /\ pc = "end"

\* The streamed reply was opened with a 2xx and its line iteration has ended
\* the way `how` says.
LinesEnded(how) == req.stream /\ Len(answers) = 3 /\ answers[3] \in how

LineFailures == {"readerror", "timeout", "badjson"}

\* The installed-model list was obtained, and the requested identifier
\* matches no installed base name, as it is or with its ":tag" stripped.
BaseNames(ms) ==
    { Split0(IF ms[i].hasName THEN ms[i].name ELSE <<>>) : i \in 1..Len(ms) }

Resolves(model, ms) == model \in BaseNames(ms) \/ Split0(model) \in BaseNames(ms)

Unresolved == prechecked # "pending" /\ ~ Resolves(req.model, models)

\* C1: a stream whose backend sent a done chunk and raised no error ends
\* with exactly one [DONE] event, and that event is the last one.
C1_DoneOnceAndLast ==
    ( /\ StreamEnded
      /\ escaped = NoExc
      /\ Indices("error") = {}
      /\ \E i \in 1..Len(received) : ChunkDone(received[i]) )
    => /\ Cardinality(Indices("done")) = 1
       /\ LastKind = "done"

\* C2: in every stream at most one error event is emitted, it is the last
\* event, and a stream with an error event has no [DONE] event.
C2_DoneErrorExclusive ==
    /\ Cardinality(Indices("error")) <= 1
    /\ Indices("error") # {} => /\ Indices("done") = {}
                                /\ Indices("error") = {Len(events)}

C2_Witness ==
    /\ StreamEnded
    /\ LastKind = "error"

\* C3: a backend stream that fails after a data event was emitted ends the
\* event sequence with exactly one error event.
C3_MidStreamErrorEvent ==
    ( /\ StreamEnded
      /\ LinesEnded(LineFailures)
      /\ Indices("data") # {} )
    => /\ Cardinality(Indices("error")) = 1
       /\ LastKind = "error"

\* C4: a stream that fails before its first event (the model-list pre-check
\* fails, or the streamed call itself fails to connect, times out or is
\* answered with a non-2xx status) consists of an error event; no exception
\* leaves the generator.
C4_EarlyFailureErrorEvent ==
    ( /\ StreamEnded
      /\ \/ /\ prechecked # "passed"
            /\ answers[1] \in {"200", "404", "500", "connect", "timeout"}
         \/ /\ Len(answers) = 2
            /\ answers[2] # "200" )
    => /\ escaped = NoExc
       /\ Len(events) = 1
       /\ LastKind = "error"

\* C5: a stream that ends (no exception leaving it) ends with [DONE] or with
\* an error event, also when the backend closes without a done chunk.
C5_EndsDoneOrErrored ==
    (StreamEnded /\ escaped = NoExc) => LastKind \in {"done", "error"}

\* C6: a streaming request whose model does not resolve against the
\* installed list yields exactly one event, a model_not_found error event.
C6_StreamModelNotFound ==
    (StreamEnded /\ Unresolved)
    => /\ Len(events) = 1
       /\ events[1].kind = "error"
       /\ events[1].etype = "model_not_found"

C6_Witness ==
    /\ StreamEnded
    /\ Unresolved
    /\ answers = <<"200">>
    /\ models # <<>>

\* C7: a unary request whose model does not resolve against the installed
\* list is answered 404 with type and code model_not_found, and the error
\* carries the requested identifier unchanged.
C7_UnaryModelNotFound ==
    (UnaryEnded /\ Unresolved)
    => /\ response.status = 404
       /\ response.type = "model_not_found"
       /\ response.code = "model_not_found"
       /\ response.model = req.model

C7_Witness ==
    /\ UnaryEnded
    /\ Unresolved
    /\ answers = <<"200">>
    /\ models # <<>>
    /\ Split0(req.model) # req.model

\* C8: once the pre-check has passed, a 404 answer to POST /api/chat or
\* /api/generate reaches the client as model_not_found, unary and streaming.
C8_Post404ModelNotFound ==
    ( /\ pc = "end"
      /\ prechecked = "passed"
      /\ Len(answers) = 2
      /\ answers[2] = "404" )
    => IF req.stream
         THEN /\ LastKind = "error"
              /\ events[Len(events)].etype = "model_not_found"
         ELSE /\ response.status = 404
              /\ response.type = "model_not_found"

\* C9: a unary request all of whose backend calls fail at connection level
\* is answered with HTTP 500.
C9_UnreachableIs500 ==
    ( /\ UnaryEnded
      /\ answers # <<>>
      /\ \A i \in 1..Len(answers) : answers[i] = "connect" )
    => response.status = 500

\* C10: with a secret configured, verify_api_key answers 401 missing_api_key
\* without a header, 401 invalid_api_key for every header value other than
\* the secret, and accepts exactly the header equal to the secret; with no
\* secret configured it accepts every request.
C10_ApiKeyGate ==
    authResult # AuthPending
    => IF apiKeyCfg = <<>>
         THEN authResult.status = 200
       ELSE IF ~ header.present
         THEN authResult.status = 401 /\ authResult.code = "missing_api_key"
       ELSE IF header.value # apiKeyCfg
         THEN authResult.status = 401 /\ authResult.code = "invalid_api_key"
       ELSE authResult.status = 200

\* What the backend reported for a count: the count, 0 when it is absent.
BackendCount(has, n) == IF has THEN n ELSE 0

\* C14: in every unary response, prompt_tokens and completion_tokens are the
\* backend's counts (0 when absent) and total_tokens is their sum.
C14_UsageSum ==
    (UnaryEnded /\ response.status = 200)
    => /\ usage.prompt_tokens = BackendCount(result.hasPrompt, result.prompt)
       /\ usage.completion_tokens = BackendCount(result.hasEval, result.eval)
       /\ usage.total_tokens = usage.prompt_tokens + usage.completion_tokens

C14_Witness ==
    /\ UnaryEnded
    /\ response.status = 200
    /\ ~ result.hasPrompt
    /\ result.hasEval
    /\ result.eval > 0

\* The content a data event carries, and the content of a backend chunk.
EventContent(e) ==
    IF e.object = "chat.completion.chunk"
      THEN IF e.delta = <<>> THEN "" ELSE e.delta[1]
      ELSE e.text[1]

ChunkContent(c) == IF c.hasContent THEN c.content ELSE ""

IsDataEvent(e) == e.kind = "data"

\* C15: the data events of a stream are, in order, one per backend chunk
\* received, the k-th carrying exactly the content of the k-th chunk.
C15_DataEventsFollowChunks ==
    LET d == SelectSeq(events, IsDataEvent)
    IN  /\ Len(d) = Len(received)
        /\ \A k \in 1..Len(d) : EventContent(d[k]) = ChunkContent(received[k])

C15_Witness ==
    /\ Len(received) = 2
    /\ ChunkContent(received[1]) = "a"
    /\ ChunkContent(received[2]) = "b"
    /\ Len(SelectSeq(events, IsDataEvent)) = 2

\* C20: whenever the stream generator is about to be pulled (before its
\* first chunk and before each later one), the HTTP client handed to
\* _stream_request has not been closed.
C20_ClientOpenWhileStreaming ==
    pc \in {"open", "lines", "sentinel"} => ~ clientClosed

(***************************************************************************)
(* The administrative surface: GET /health, GET /v1/models,                *)
(* POST /v1/models/pull, DELETE /v1/models/{name}.                         *)
(***************************************************************************)
\* self.timeout = timeout or settings.ollama_timeout: a configured value
\* below every other budget, the default, and one above the pull budget.
TimeoutCfgs == {2, DefaultTimeout, 2000}

\* How long the backend takes to answer a call, in seconds.
Durations == {1, 3, 6, 121, 1199, 1201, 2001}

AdminOps == {"health", "models", "pull", "delete"}

\* What the backend does with a call, given time enough.
Answers == [outcome : Outcomes \ {"timeout"}, took : Durations]

NoAnswer == [outcome |-> "200", took |-> 1]

\* httpx under AsyncClient(timeout=budget): a call that outlasts the budget
\* ends in a TimeoutException, any other ends the way the backend ends it.
Effective(answer, budget) ==
    IF answer.took > budget THEN "timeout" ELSE answer.outcome

\* response.status_code, 0 when no response arrives ("badjson" is a 200
\* whose body does not parse).
StatusOf(outcome) ==
    CASE outcome = "200"     -> 200
      [] outcome = "badjson" -> 200
      [] outcome = "404"     -> 404
      [] outcome = "500"     -> 500
      [] OTHER               -> 0

\* Mutant of PullBudget: the pull goes through the client's own timeout.
PullBudget_generation(cfg) == cfg

\* The budget of each backend call, cfg being self.timeout.
PullBudget(cfg) == PullTimeout

HealthBudget(cfg) == HealthTimeout

RequestBudget(cfg) == cfg

\* Mutant of health_check: `return True` for whatever response arrives.
health_check_any_response(outcome) ==
    [raised |-> NoExc, value |-> StatusOf(outcome) # 0]

\* health_check(): [raised, value]; every Exception is caught.
health_check(outcome) ==
    [raised |-> NoExc, value |-> StatusOf(outcome) = 200]

\* pull_model(): the exception it raises; raise_for_status() and
\* response.json() are inside the try.
pull_model(outcome) ==
    IF outcome = "200" THEN NoExc ELSE Exc("OllamaError")

\* delete_model(): _request("DELETE", "/api/delete", {"name": model}), every
\* exception of which is raised again as a plain OllamaError.
delete_model(outcome) ==
    IF _request(outcome, Unknown) = NoExc THEN NoExc ELSE Exc("OllamaError")

\* Mutant of health_route: the model count is taken without the try.
health_route_unguarded(is_connected, listing) ==
    [escaped |-> IF is_connected THEN listing.raised ELSE NoExc,
     body    |-> [status |-> IF is_connected THEN "healthy" ELSE "unhealthy",
                  ollama_connected    |-> is_connected,
                  ollama_models_count |->
                      IF is_connected THEN Len(listing.value) ELSE 0]]

\* Mutant of health_route: the status also depends on the model count having
\* been obtained.
health_route_degraded(is_connected, listing) ==
    [escaped |-> NoExc,
     body    |-> [status |-> IF is_connected /\ listing.raised = NoExc
                               THEN "healthy" ELSE "unhealthy",
                  ollama_connected    |-> is_connected,
                  ollama_models_count |->
                      IF is_connected /\ listing.raised = NoExc
                        THEN Len(listing.value) ELSE 0]]

\* routes/health.py health_check, given what the probe returned and, when it
\* returned true, how list_models() ended.
health_route(is_connected, listing) ==
    [escaped |-> NoExc,
     body    |-> [status |-> IF is_connected THEN "healthy" ELSE "unhealthy",
                  ollama_connected    |-> is_connected,
                  ollama_models_count |->
                      IF is_connected /\ listing.raised = NoExc
                        THEN Len(listing.value) ELSE 0]]

\* routes/models.py list_models: id=model.get("name", "unknown")
ModelInfoIds(ms) ==
    [i \in 1..Len(ms) |-> IF ms[i].hasName THEN ms[i].name ELSE Unknown]

AdminOk == [status |-> 200, type |-> "ok", code |-> "none", model |-> <<>>]

\* routes/models.py pull_model / delete_model: except Exception
admin_error(code) ==
    [status |-> 500, type |-> "server_error", code |-> code, model |-> <<>>]

BackendCall(path, budget, answer) ==
    [path |-> path, budget |-> budget,
     outcome |-> answer.outcome, took |-> answer.took]

Returned(fn, raised, flag, value) ==
    [fn |-> fn, raised |-> raised, flag |-> flag, value |-> value]

InitAdmin ==
    /\ op \in AdminOps
    /\ timeoutCfg \in TimeoutCfgs
    /\ waits = <<>>
    /\ clientRet = <<>>
    /\ respBody = <<>>
    /\ req = [endpoint |-> "chat", stream |-> FALSE, model |-> <<"m">>]
    /\ pc = "admin"
    /\ models = <<>>
    /\ prechecked = "pending"
    /\ calls = <<>>
    /\ answers = <<>>
    /\ response = NoResponse
    /\ events = <<>>
    /\ escaped = NoExc
    /\ clientClosed = FALSE
    /\ received = <<>>
    /\ InitAuthIdle
    /\ InitUnaryIdle
    /\ InitPayloadIdle
    /\ InitCancelIdle

adminIdle ==
    <<req, models, prechecked, answers, events, clientClosed, received,
      op, timeoutCfg, authVars, unaryVars, payloadVars, cancelVars>>

\* GET /health, up to the return of client.health_check().
HealthProbe(answer) ==
    /\ pc = "admin"
    /\ op = "health"
    /\ LET budget == HealthBudget(timeoutCfg)
           r      == health_check(Effective(answer, budget))
           out    == health_route(FALSE, [raised |-> NoExc, value |-> <<>>])
       IN  /\ calls' = Append(calls, Call("GET", "/api/tags"))
           /\ waits' = Append(waits, BackendCall("/api/tags", budget, answer))
           /\ clientRet' = Append(clientRet,
                                  Returned("health_check", r.raised, r.value, <<>>))
           /\ IF r.raised # NoExc
                THEN /\ escaped' = r.raised
                     /\ pc' = "end"
                     /\ UNCHANGED <<response, respBody>>
              ELSE IF r.value
                THEN /\ pc' = "count"
                     /\ UNCHANGED <<escaped, response, respBody>>
              ELSE /\ pc' = "end"
                   /\ escaped' = out.escaped
                   /\ response' = AdminOk
                   /\ respBody' = out.body
    /\ UNCHANGED adminIdle

\* GET /health, `if is_connected:` to the return.
HealthCount(answer, body) ==
    /\ pc = "count"
    /\ LET budget == RequestBudget(timeoutCfg)
           r      == list_models(Effective(answer, budget), body)
           out    == health_route(TRUE, r)
       IN  /\ calls' = Append(calls, Call("GET", "/api/tags"))
           /\ waits' = Append(waits, BackendCall("/api/tags", budget, answer))
           /\ clientRet' = Append(clientRet,
                                  Returned("list_models", r.raised, FALSE, r.value))
           /\ pc' = "end"
           /\ escaped' = out.escaped
           /\ IF out.escaped = NoExc
                THEN response' = AdminOk /\ respBody' = out.body
                ELSE UNCHANGED <<response, respBody>>
    /\ UNCHANGED adminIdle

\* GET /v1/models
ModelsList(answer, body) ==
    /\ pc = "admin"
    /\ op = "models"
    /\ LET budget == RequestBudget(timeoutCfg)
           r      == list_models(Effective(answer, budget), body)
       IN  /\ calls' = Append(calls, Call("GET", "/api/tags"))
           /\ waits' = Append(waits, BackendCall("/api/tags", budget, answer))
           /\ clientRet' = Append(clientRet,
                                  Returned("list_models", r.raised, FALSE, r.value))
           /\ pc' = "end"
           /\ response' = AdminOk
           /\ respBody' = [data |-> IF r.raised = NoExc
                                      THEN ModelInfoIds(r.value) ELSE <<>>]
    /\ UNCHANGED <<escaped, adminIdle>>

\* POST /v1/models/pull
PullModel(answer) ==
    /\ pc = "admin"
    /\ op = "pull"
    /\ LET budget == PullBudget(timeoutCfg)
           e      == pull_model(Effective(answer, budget))
       IN  /\ calls' = Append(calls, Call("POST", "/api/pull"))
           /\ waits' = Append(waits, BackendCall("/api/pull", budget, answer))
           /\ clientRet' = Append(clientRet, Returned("pull_model", e, FALSE, <<>>))
           /\ pc' = "end"
           /\ response' = IF e = NoExc THEN AdminOk ELSE admin_error("pull_error")
           /\ respBody' = IF e = NoExc THEN [status |-> "success"] ELSE <<>>
    /\ UNCHANGED <<escaped, adminIdle>>

\* DELETE /v1/models/{model_name}
DeleteModel(answer) ==
    /\ pc = "admin"
    /\ op = "delete"
    /\ LET budget == RequestBudget(timeoutCfg)
           e      == delete_model(Effective(answer, budget))
       IN  /\ calls' = Append(calls, Call("DELETE", "/api/delete"))
           /\ waits' = Append(waits, BackendCall("/api/delete", budget, answer))
           /\ clientRet' = Append(clientRet, Returned("delete_model", e, FALSE, <<>>))
           /\ pc' = "end"
           /\ response' = IF e = NoExc THEN AdminOk ELSE admin_error("delete_error")
           /\ respBody' = IF e = NoExc THEN [status |-> "success"] ELSE <<>>
    /\ UNCHANGED <<escaped, adminIdle>>

NextAdmin ==
    \/ \E a \in Answers : HealthProbe(a)
    \/ \E a \in Answers :
          \E b \in IF a.outcome = "200" THEN TagsBodies ELSE {NoBody} :
             HealthCount(a, b)
    \/ \E a \in Answers :
          \E b \in IF a.outcome = "200" THEN TagsBodies ELSE {NoBody} :
             ModelsList(a, b)
    \/ \E a \in Answers : PullModel(a)
    \/ \E a \in Answers : DeleteModel(a)

SpecAdmin == InitAdmin /\ [][NextAdmin]_vars

\* The backend answered the i-th call within the budget of that call.
AnsweredInTime(i) == waits[i].took <= waits[i].budget

\* C11: GET /health lets no exception out and answers 200 whatever the
\* backend does on either of its calls; with the backend unreachable the body
\* is "unhealthy", not connected, 0 models.
C11_HealthNeverFails ==
    op = "health"
    => /\ escaped = NoExc
       /\ pc = "end" => response.status = 200
       /\ (pc = "end" /\ waits[1].outcome = "connect")
          => respBody = [status |-> "unhealthy", ollama_connected |-> FALSE,
                         ollama_models_count |-> 0]

C11_Witness ==
    /\ op = "health"
    /\ pc = "end"
    /\ Len(clientRet) = 2
    /\ clientRet[1].flag
    /\ clientRet[2].raised # NoExc
    /\ response.status = 200

\* C12: health_check() raises nothing and returns true exactly when the
\* backend answered GET /api/tags, within the probe's budget, with status 200.
C12_HealthCheckTrueIff200 ==
    \A i \in 1..Len(clientRet) :
        clientRet[i].fn = "health_check"
        => /\ clientRet[i].raised = NoExc
           /\ clientRet[i].flag
              <=> (AnsweredInTime(i) /\ StatusOf(waits[i].outcome) = 200)

C12_Witness ==
    /\ Len(clientRet) >= 1
    /\ clientRet[1].fn = "health_check"
    /\ waits[1].outcome = "404"
    /\ AnsweredInTime(1)
    /\ ~ clientRet[1].flag

\* C13: list_models() raises nothing to its caller, whatever the backend
\* does (here with the client's default timeout).
C13_ListModelsNeverRaises ==
    timeoutCfg = DefaultTimeout
    => \A i \in 1..Len(clientRet) :
          clientRet[i].fn = "list_models" => clientRet[i].raised = NoExc

\* C18: the pull runs under the pull budget and the probe under the health
\* budget, whatever timeout the client was constructed with: a pull the
\* backend completes within the pull budget succeeds, one that outlasts it
\* fails, and likewise for the probe.
C18_IndependentBudgets ==
    \A i \in 1..Len(waits) :
        /\ waits[i].path = "/api/pull"
           => /\ waits[i].budget = PullTimeout
              /\ (waits[i].outcome = "200" /\ waits[i].took < PullTimeout)
                 => (clientRet[i].raised = NoExc /\ response.status = 200)
              /\ waits[i].took > PullTimeout => response.status = 500
        /\ clientRet[i].fn = "health_check"
           => /\ waits[i].budget = HealthTimeout
              /\ (waits[i].outcome = "200" /\ waits[i].took < HealthTimeout)
                 => clientRet[i].flag
              /\ waits[i].took > HealthTimeout => ~ clientRet[i].flag

C18_Witness ==
    /\ op = "pull"
    /\ pc = "end"
    /\ waits[1].outcome = "200"
    /\ waits[1].took > timeoutCfg
    /\ waits[1].took < PullTimeout
    /\ response.status = 200

\* C19: a DELETE that the backend answers with 404 is answered with 404.
C19_DeleteMissingIs404 ==
    (op = "delete" /\ pc = "end" /\ waits[1].outcome = "404" /\ AnsweredInTime(1))
    => response.status = 404

(***************************************************************************)
(* The backend payload of chat() and generate().                           *)
(***************************************************************************)
\* max_tokens: Optional[int] = Field(default=None, ge=1)
MinTokens == 1

\* An Optional value: None is <<>>, a value v is <<v>>.
None == <<>>

Some(v) == <<v>>

\* ChatMessage.role
Roles == {"system", "user", "assistant"}

\* A ChatMessage object, by its fields in order: <<role, content>>.
ChatMessages == Roles \X {"a", "b"}

\* temperature and top_p of a request, in tenths; null may be sent for each.
Temperatures == {None, Some(0), Some(7)}

TopPs == {None, Some(10)}

\* stop: Optional[list[str]]: None, [] or a list of strings.
Stops ==
    { [supplied |-> FALSE, seq |-> <<>>] }
    \cup { [supplied |-> TRUE, seq |-> q] : q \in { <<>>, <<"s">>, <<"">> } }

\* A validated ChatCompletionRequest / CompletionRequest.
PayloadParams ==
    [endpoint : {"chat"}, model : { <<"m">> }, stream : BOOLEAN,
     messages : SeqsUpTo(ChatMessages, MaxMsgs), prompt : {""},
     temperature : Temperatures, top_p : TopPs,
     max_tokens : {None} \cup { Some(n) : n \in MinTokens..MaxTokens },
     stop : Stops]
    \cup
    [endpoint : {"completions"}, model : { <<"m">> }, stream : BOOLEAN,
     messages : { <<>> }, prompt : {"", "p"},
     temperature : Temperatures, top_p : TopPs,
     max_tokens : {None} \cup { Some(n) : n \in MinTokens..MaxTokens },
     stop : Stops]

\* Mutant of to_ollama_messages: every message is sent as a user message.
to_ollama_messages_as_user(ms) ==
    [i \in 1..Len(ms) |-> [role |-> "user", content |-> ms[i][2]]]

\* chat_completions: [{"role": msg.role, "content": msg.content} for msg in
\* request.messages]
to_ollama_messages(ms) ==
    [i \in 1..Len(ms) |-> [role |-> ms[i][1], content |-> ms[i][2]]]

\* Python truth of an Optional[int] and of an Optional[list]
TruthyInt(x) == x # None /\ x[1] # 0

TruthyList(l) == l.supplied /\ Len(l.seq) > 0

\* Mutant of payload_options: num_predict is assigned without the test.
payload_options_unconditional(temperature, max_tokens, top_p, stop) ==
    LET keys == {"temperature", "top_p", "num_predict"}
                \cup (IF TruthyList(stop) THEN {"stop"} ELSE {})
    IN  [k \in keys |->
            CASE k = "temperature" -> temperature
              [] k = "top_p"       -> top_p
              [] k = "num_predict" -> max_tokens
              [] k = "stop"        -> stop.seq]

\* chat() / generate(): payload["options"], a dict by its keys
payload_options(temperature, max_tokens, top_p, stop) ==
    LET keys == {"temperature", "top_p"}
                \cup (IF TruthyInt(max_tokens) THEN {"num_predict"} ELSE {})
                \cup (IF TruthyList(stop) THEN {"stop"} ELSE {})
    IN  [k \in keys |->
            CASE k = "temperature" -> temperature
              [] k = "top_p"       -> top_p
              [] k = "num_predict" -> max_tokens
              [] k = "stop"        -> stop.seq]

\* chat(): payload
chat_payload(model, messages, temperature, max_tokens, top_p, stop, stream) ==
    [k \in {"model", "messages", "stream", "options"} |->
        CASE k = "model"    -> model
          [] k = "messages" -> messages
          [] k = "stream"   -> stream
          [] k = "options"  ->
                payload_options(temperature, max_tokens, top_p, stop)]

\* generate(): payload
generate_payload(model, prompt, temperature, max_tokens, top_p, stop, stream) ==
    [k \in {"model", "prompt", "stream", "options"} |->
        CASE k = "model"   -> model
          [] k = "prompt"  -> prompt
          [] k = "stream"  -> stream
          [] k = "options" ->
                payload_options(temperature, max_tokens, top_p, stop)]

InitPayload ==
    /\ params \in PayloadParams
    /\ payload = <<>>
    /\ req = [endpoint |-> "chat", stream |-> FALSE, model |-> <<"m">>]
    /\ pc = "payload"
    /\ models = <<>>
    /\ prechecked = "pending"
    /\ calls = <<>>
    /\ answers = <<>>
    /\ response = NoResponse
    /\ events = <<>>
    /\ escaped = NoExc
    /\ clientClosed = FALSE
    /\ received = <<>>
    /\ InitAuthIdle
    /\ InitUnaryIdle
    /\ InitAdminIdle
    /\ InitCancelIdle

\* The handler's conversion of the messages and the payload chat() or
\* generate() builds from the arguments the handler passes.
BuildPayload ==
    /\ pc = "payload"
    /\ payload' =
          IF params.endpoint = "chat"
            THEN chat_payload(params.model, to_ollama_messages(params.messages),
                              params.temperature, params.max_tokens,
                              params.top_p, params.stop, params.stream)
            ELSE generate_payload(params.model, params.prompt,
                                  params.temperature, params.max_tokens,
                                  params.top_p, params.stop, params.stream)
    /\ pc' = "end"
    /\ UNCHANGED <<params, req, models, prechecked, calls, response, events,
                   escaped, clientClosed, received, answers, authVars,
                   unaryVars, adminVars, cancelVars>>

NextPayload == BuildPayload

SpecPayload == InitPayload /\ [][NextPayload]_vars

\* C16: the payload's messages are as many as the request's, the i-th with
\* the role and the content of the request's i-th message.
C16_MessagesPreserved ==
    (pc = "end" /\ params.endpoint = "chat")
    => LET m == payload["messages"]
       IN  /\ Len(m) = Len(params.messages)
           /\ \A i \in 1..Len(m) :
                 /\ m[i].role = params.messages[i][1]
                 /\ m[i].content = params.messages[i][2]

C16_Witness ==
    /\ pc = "end"
    /\ params.endpoint = "chat"
    /\ params.messages = << <<"system", "a">>, <<"user", "b">> >>
    /\ Len(payload["messages"]) = 2

\* C17: options always has temperature and top_p, has num_predict exactly
\* when max_tokens was supplied, then equal to it, has stop exactly when a
\* non-empty stop was supplied, then equal to it, and has no other key.
C17_OptionsKeys ==
    pc = "end"
    => LET o == payload["options"]
       IN  /\ {"temperature", "top_p"} \subseteq DOMAIN o
           /\ DOMAIN o \subseteq {"temperature", "top_p", "num_predict", "stop"}
           /\ "num_predict" \in DOMAIN o <=> params.max_tokens # None
           /\ "num_predict" \in DOMAIN o => o["num_predict"] = params.max_tokens
           /\ "stop" \in DOMAIN o
              <=> (params.stop.supplied /\ params.stop.seq # <<>>)
           /\ "stop" \in DOMAIN o => o["stop"] = params.stop.seq

C17_Witness ==
    /\ pc = "end"
    /\ params.max_tokens = None
    /\ params.stop = [supplied |-> TRUE, seq |-> <<>>]
    /\ DOMAIN payload["options"] = {"temperature", "top_p"}

(***************************************************************************)
(* Order and number of the backend calls of one request.                   *)
(***************************************************************************)
PostCalls == { i \in 1..Len(calls) : calls[i].method = "POST" }

TagsCalls == { i \in 1..Len(calls) : calls[i] = Call("GET", "/api/tags") }

\* The answers that are failures of a backend call.
FailedAnswers ==
    { i \in 1..Len(answers) : answers[i] \notin {"200", "line", "empty", "eof"} }

\* C21: a POST /api/chat | /api/generate is in the calls only as the second
\* call, after GET /api/tags was answered with a list in which the requested
\* model resolves; when the model does not resolve there is no POST.
C21_PostOnlyAfterResolvingList ==
    /\ \A i \in PostCalls :
          /\ i = 2
          /\ calls[1] = Call("GET", "/api/tags")
          /\ calls[i].path = PostPath
          /\ answers # <<>>
          /\ answers[1] = "200"
          /\ prechecked = "passed"
          /\ Resolves(req.model, models)
    /\ Unresolved => PostCalls = {}

C21_Witness ==
    /\ req.stream
    /\ PostCalls = {2}
    /\ Split0(req.model) # req.model
    /\ req.model \notin full_names(models)

\* C22: the pre-check accepts exactly when the identifier, as it is or with
\* its ":tag" stripped, is the base name of an installed model, and the
\* exact-full-name test never changes what the base-name test decides.
C22_PrecheckIffBaseResolves ==
    /\ prechecked # "pending"
       => (prechecked = "passed" <=> Resolves(req.model, models))
    /\ prechecked # "pending"
       => (PrecheckPasses(req.model, models)
           <=> Split0(req.model) \in model_names(models))
    /\ prechecked = "failed" => IsModelNotFoundError(precheck(req.model, models))

C22_Witness ==
    /\ prechecked = "passed"
    /\ req.model = <<"q">>
    /\ models = << [hasName |-> TRUE, name |-> <<"q", ":", "t">>] >>

\* C26: one request issues at most one GET /api/tags and at most one POST;
\* after a failed backend call it issues no other; and a request in which a
\* backend call failed does not end as a success: it ends in an error
\* response, an error event or an exception that ends it.
C26_NoRetry ==
    /\ Cardinality(TagsCalls) <= 1
    /\ Cardinality(PostCalls) <= 1
    /\ Len(calls) <= 2
    /\ (answers # <<>> /\ answers[1] # "200") => Len(calls) = 1
    /\ (pc = "end" /\ FailedAnswers # {})
       => \/ response.status >= 400
          \/ Indices("error") # {}
          \/ escaped # NoExc

C26_Witness ==
    /\ UnaryEnded
    /\ answers = <<"200", "timeout">>
    /\ Len(calls) = 2
    /\ response.status = 500

\* C27: an error event is the first and only event of its stream; after a
\* data event no error event follows.
C27_ErrorEventIsOnlyEvent ==
    \A i \in Indices("error") : i = 1 /\ Len(events) = 1

C27_Witness ==
    /\ StreamEnded
    /\ Len(received) >= 1
    /\ LinesEnded(LineFailures)
    /\ Indices("data") # {}
    /\ Indices("error") = {}

\* How the i-th backend call ended for the connector: the backend's answer,
\* or a timeout when the answer took longer than the call's budget.
EffectiveAt(i) ==
    Effective([outcome |-> waits[i].outcome, took |-> waits[i].took],
              waits[i].budget)

\* The failures the connector is to tell apart: connection failure, timeout,
\* HTTP-level failure (a non-2xx, non-404 status).
FailureClasses == {"connect", "timeout", "500"}

\* C23: whenever a call made through _request fails in one of the three
\* ways, the kind of error _request raises for it differs from the kind it
\* raises for each of the other two (here with the client's default timeout).
C23_DistinctErrorKinds ==
    \A i \in 1..Len(waits) :
        (timeoutCfg = DefaultTimeout
         /\ clientRet[i].fn \in {"list_models", "delete_model"}
         /\ EffectiveAt(i) \in FailureClasses)
        => \A other \in FailureClasses \ {EffectiveAt(i)} :
              _request(EffectiveAt(i), Unknown).kind
                 # _request(other, Unknown).kind

\* C24: when GET /api/tags fails to connect, list_models() raises nothing
\* and returns the empty list, and GET /v1/models answers 200 with an empty
\* data list.
C24_UnreachableListsEmpty ==
    (op = "models" /\ pc = "end" /\ EffectiveAt(1) = "connect")
    => /\ clientRet[1].fn = "list_models"
       /\ clientRet[1].raised = NoExc
       /\ clientRet[1].value = <<>>
       /\ response.status = 200
       /\ respBody = [data |-> <<>>]

C24_Witness ==
    /\ op = "models"
    /\ pc = "end"
    /\ waits[1].outcome = "connect"
    /\ AnsweredInTime(1)
    /\ timeoutCfg = DefaultTimeout
    /\ respBody = [data |-> <<>>]

\* C28: in every /health response the status is "healthy" exactly when
\* ollama_connected is true, which is what the probe returned; a positive
\* model count comes only with ollama_connected true; and when the model
\* list fails after a successful probe the response is "healthy" with 0.
C28_HealthBodyConsistent ==
    (op = "health" /\ pc = "end")
    => /\ respBody.status = "healthy" <=> respBody.ollama_connected
       /\ respBody.ollama_connected = clientRet[1].flag
       /\ respBody.ollama_models_count > 0 => respBody.ollama_connected
       /\ (Len(clientRet) = 2 /\ clientRet[2].raised # NoExc)
          => /\ respBody.status = "healthy"
             /\ respBody.ollama_models_count = 0
       /\ (Len(clientRet) = 2 /\ clientRet[2].raised = NoExc)
          => respBody.ollama_models_count = Len(clientRet[2].value)

C28_Witness ==
    /\ op = "health"
    /\ pc = "end"
    /\ Len(waits) = 2
    /\ waits[2].outcome = "500"
    /\ AnsweredInTime(2)
    /\ respBody.status = "healthy"
    /\ respBody.ollama_models_count = 0

(***************************************************************************)
(* A streaming request whose client may disconnect.                        *)
(***************************************************************************)
\* Where the generator is suspended in an await or a yield while it is being
\* consumed: awaiting GET /api/tags, awaiting the next line (or at the yield
\* of [DONE]), at the yield of a data event.
Suspended == {"list", "lines", "sentinel"}

\* Mutant of on_cancel: the loop body catches the exception thrown in and
\* goes on (`except BaseException: continue`).
on_cancel_swallowed(at) == at

\* Where the generator goes when CancelledError or GeneratorExit is thrown
\* in at `at`: neither is an OllamaError, so no except clause of the
\* generators takes it, and _stream_request has none; the generators end.
on_cancel(at) == "end"

\* A streaming request; the identifier plays no part in the cancellation, so
\* one untagged and one tagged identifier stand for all.
InitCancel ==
    /\ Init
    /\ req.stream
    /\ req.model \in { <<"m">>, <<"m", ":", "u">> }

\* The client goes away: the response task is cancelled, or the abandoned
\* generator is left to be closed.  Nothing pulls the generator any more.
Disconnect ==
    /\ req.stream
    /\ pc \in Suspended
    /\ cancelledAt = "none"
    /\ cancelledAt' = pc
    /\ pc' = "cancelled"
    /\ UNCHANGED <<req, models, prechecked, calls, answers, response, events,
                   escaped, clientClosed, received, unaryVars, authVars,
                   payloadVars, adminVars>>

\* CancelledError / GeneratorExit is thrown in at the suspension point and
\* unwinds the generators: `async with client.stream(...)` and `async with
\* httpx.AsyncClient(...)` exit, closing what they hold.
Teardown ==
    /\ pc = "cancelled"
    /\ pc' = on_cancel(cancelledAt)
    /\ escaped' = IF pc' = "end" THEN Exc("CancelledError") ELSE escaped
    /\ clientClosed' = TRUE
    /\ UNCHANGED <<req, models, prechecked, calls, answers, response, events,
                   received, unaryVars, idleVars>>

NextCancel ==
    \/ HandlerEntry
    \/ \E o \in Outcomes :
          \E b \in IF o = "200" THEN TagsBodies ELSE {NoBody} : ListReturns(o, b)
    \/ StreamOpenRefused
    \/ \E o \in OpenOutcomes : StreamOpen(o)
    \/ \E o \in LineOutcomes :
          \E c \in IF o = "line" THEN Chunks ELSE {NoChunk} : StreamLine(o, c)
    \/ StreamSentinel
    \/ Disconnect
    \/ Teardown

\* The event loop delivers a pending cancellation and runs the finalizer of
\* an abandoned generator.
SpecCancel == InitCancel /\ [][NextCancel]_vars /\ WF_vars(Teardown)

\* The streamed backend response is open: _stream_request is inside its
\* `async with client.stream(...)`.
BackendStreamOpen ==
    \/ pc \in {"lines", "sentinel"}
    \/ pc = "cancelled" /\ cancelledAt \in {"lines", "sentinel"}

CancelledWhileOpen == cancelledAt \in {"lines", "sentinel"}

\* C25: a disconnect while the backend stream is open leads to the backend
\* stream and the HTTP client being closed, and from the disconnect on no
\* chunk is read, no event emitted and no backend call made.
C25_CancelClosesBackendStream ==
    /\ CancelledWhileOpen ~> (~ BackendStreamOpen /\ clientClosed)
    /\ [][cancelledAt # "none"
          => UNCHANGED <<events, received, calls, answers>>]_vars

C25_Witness ==
    /\ CancelledWhileOpen
    /\ pc = "end"
    /\ Len(received) >= 1
    /\ ~ BackendStreamOpen

=============================================================================
